---- MODULE Spec2Model ----
(***************************************************************************)
(* The chat hub of simple-chatapp: WebSocketChatServer, its MemoryStore,   *)
(* the TokenBucketRateLimiter and the MessageRepository, as one state      *)
(* machine.  Every handler of the server is one action; a handler runs to  *)
(* completion (Node's event loop), so actions are atomic.                  *)
(*                                                                         *)
(* Units: the clock is Date.now() in milliseconds, counted from Epoch      *)
(* milliseconds before the server starts.  Token counts are kept in thousandths of a token, so that   *)
(* tokens + (now - lastRefill) / 1000 * 3 is the integer                   *)
(* tokens + (now - lastRefill) * 3.                                        *)
(***************************************************************************)
EXTENDS Integers, Sequences, FiniteSets, TLC

(***************************************************************************)
(* Bounds of the model.                                                    *)
(***************************************************************************)
MaxConns == 2
MaxMsgs == 1
MaxBurstMsgs == 12
MaxBurstTicks == 3
MaxSkewMsgs == 4
MaxSkewTicks == 3
MaxHistMsgs == 101
MaxIdMsgs == 3
MaxIdTicks == 2
MaxRand == 1
MaxCapMsgs == 501
MaxCapTicks == 502
MaxTtlMsgs == 3
MaxTtlTicks == 4
MaxFrameMsgs == 1
MaxFailMsgs == 2
MaxTypingTicks == 3
MaxPageMsgs == 3
MaxPageTicks == 2
MaxJobMsgs == 2
MaxJobTicks == 3
MaxIntervals == 2
MaxRoomMsgs == 1
MaxClientSocks == 2
MaxRetries == 2
MaxSyncMsgs == 2
MaxSyncTicks == 1

(***************************************************************************)
(* Program constants.                                                      *)
(***************************************************************************)
maxMessages == 10
refillRate == 3
MsPerSecond == 1000
MaxTextLen == 2000
RecentLimit == 100
TtlMs == 24 * 60 * 60 * 1000
MaxCount == 500

UserIds == {"u1", "u2"}
RoomIds == {"default", "lobby"}
Conns == 1 .. MaxConns

(***************************************************************************)
(* Strings whose length matters (texts, display names) are sequences of    *)
(* chunks [ch, n]: n >= 1 characters described by ch, so that a            *)
(* 2001-character text is one chunk.  The chunk " " is whitespace.         *)
(***************************************************************************)
Run(ch, n) == [ch |-> ch, n |-> n]
Str(word, n) == << Run(word, n) >>
EmptyStr == << >>

Alice == Str("Alice", 5)
Bob == Str("Bob", 3)
Zed == Str("Zed", 3)
Anonymous == Str("Anonymous", 9)

(* The name the session carries for each user. *)
SessionName(u) == IF u = "u1" THEN Alice ELSE Bob

(* What authentication yields: NoToken, or a user id with the session's name, *)
(* which may be missing.                                                       *)
NoToken == [userId |-> "", displayName |-> EmptyStr]
Tokens == {NoToken} \cup {[userId |-> u, displayName |-> SessionName(u)] : u \in UserIds}
             \cup {[userId |-> "u2", displayName |-> EmptyStr]}

NEXTAUTH_URL == "https://chat.example"
NoOrigin == ""
Origins == {NoOrigin, "http://localhost:3000", NEXTAUTH_URL, "http://evil.com"}

TxtEmpty == EmptyStr
TxtBlank == Str(" ", 3)
TxtHi == Str("hi", 2)
TxtMax == Str("a", MaxTextLen)
TxtOver == Str("a", MaxTextLen + 1)
Texts == {TxtEmpty, TxtBlank, TxtHi, TxtMax, TxtOver}
(* "hello @Bob and @carol" *)
TxtMention ==
  << Run("hello ", 6), Run("@", 1), Run("Bob", 3), Run(" and ", 5), Run("@", 1), Run("carol", 5) >>
NameBlank == Str(" ", 3)
NameLong == Str("n", 51)

RECURSIVE TextLength(_)
TextLength(t) == IF t = << >> THEN 0 ELSE Head(t).n + TextLength(Tail(t))

RECURSIVE TrimStart(_)
TrimStart(t) ==
  IF t = << >> THEN << >>
  ELSE IF Head(t).ch = " " THEN TrimStart(Tail(t)) ELSE t

Reverse(s) == [i \in 1 .. Len(s) |-> s[Len(s) + 1 - i]]

Trim(t) == Reverse(TrimStart(Reverse(TrimStart(t))))

(***************************************************************************)
(* JavaScript Map and insertion-ordered Set.                               *)
(***************************************************************************)
MapSet(m, k, v) == [x \in (DOMAIN m) \cup {k} |-> IF x = k THEN v ELSE m[x]]
MapDelete(m, k) == [x \in (DOMAIN m) \ {k} |-> m[x]]
EmptyMap == [x \in {} |-> 0]

SeqToSet(s) == {s[i] : i \in 1 .. Len(s)}
SetAdd(s, x) == IF x \in SeqToSet(s) THEN s ELSE Append(s, x)
SetDelete(s, x) == SelectSeq(s, LAMBDA y : y # x)

VARIABLES
  clock,         \* Date.now()
  ws,            \* the server-side sockets (ExtendedWebSocket), by connection
  users,         \* MemoryStore.users: userId -> displayName
  connections,   \* MemoryStore.connections: userId -> connection
  rooms,         \* MemoryStore.rooms: roomId -> members in insertion order
  rateLimiters,  \* MemoryStore.rateLimiters: userId -> bucket
  messages,      \* the rows of table messages, in insertion order
  sent,          \* what the handler that ran last sent, in order
  typingUsers,   \* MemoryStore.typingUsers: roomId -> userId -> timer
  timers,        \* the timers of setTimeout that are pending
  cleanupInterval, \* database.ts: the handle of the cleanup job, or none
  intervals,     \* the timers of setInterval that are active
  uncaught,      \* an exception has left a callback uncaught
  client         \* a WebSocketClient (websocket-client.ts) of user u1

job == << cleanupInterval, intervals, uncaught >>

vars ==
  << clock, ws, users, connections, rooms, rateLimiters, messages, sent, typingUsers, timers,
     job, client >>

(* cleanupInterval is null. *)
NoInterval == 0

NoSocket == [readyState |-> "NONE", userId |-> "", displayName |-> "", roomId |-> ""]

NoSince == -1

(* A join frame without beforeId; a beforeId is the id of a message. *)
NoBefore == << >>

(* The clock reading at which the server starts. *)
Epoch == 3000

(* A WebSocketClient after its constructor.  socks holds the readyState of *)
(* each socket the client made that is not CLOSED, ws is the socket held   *)
(* (0 for null), retries the delays of the pending timers of               *)
(* scheduleReconnect, connectionFailed says that onError was called with   *)
(* CONNECTION_FAILED since the last connect(), outbox is the join frame    *)
(* sent and not yet answered, and delivered the ids of the messages handed *)
(* to onMessage and onHistory.                                             *)
NewClient ==
  [ws |-> 0, socks |-> EmptyMap, reconnectAttempts |-> 0, isReconnecting |-> FALSE,
   shouldReconnect |-> TRUE, lastSyncTs |-> 0, currentRoomId |-> "default",
   retries |-> << >>, connectionFailed |-> FALSE, outbox |-> << >>, delivered |-> << >>]

Init ==
  /\ clock = Epoch
  /\ ws = [c \in Conns |-> NoSocket]
  /\ users = EmptyMap
  /\ connections = EmptyMap
  /\ rooms = EmptyMap
  /\ rateLimiters = EmptyMap
  /\ messages = << >>
  /\ sent = << >>
  /\ typingUsers = EmptyMap
  /\ timers = << >>
  /\ cleanupInterval = 1
  /\ intervals = {1}
  /\ uncaught = FALSE
  /\ client = NewClient

(***************************************************************************)
(* TokenBucketRateLimiter.  A bucket is [tokens, lastRefill,               *)
(* lastMessageTime, messageCount]; tokens is in thousandths.               *)
(***************************************************************************)
Min(a, b) == IF a < b THEN a ELSE b
Max(a, b) == IF a > b THEN a ELSE b

NewLimiter(now) ==
  [tokens |-> maxMessages * MsPerSecond, lastRefill |-> now,
   lastMessageTime |-> 0, messageCount |-> 0]

(* Mutant: tokens come back twice as fast. *)
refillTokensTwice(b, now) ==
  [b EXCEPT !.tokens = Min(maxMessages * MsPerSecond,
                           b.tokens + (now - b.lastRefill) * refillRate * 2),
            !.lastRefill = now]

refillTokens(b, now) ==
  [b EXCEPT !.tokens = Min(maxMessages * MsPerSecond,
                           b.tokens + (now - b.lastRefill) * refillRate),
            !.lastRefill = now]

(* Mutant: the last token cannot be spent. *)
LimitedAtOne(b) == b.tokens <= 1 * MsPerSecond

(* isRateLimited() refills and answers; Limited is its answer on the refilled bucket. *)
Limited(b) == b.tokens < 1 * MsPerSecond

recordMessage(b, now) ==
  [b EXCEPT !.tokens = Max(0, b.tokens - 1 * MsPerSecond),
            !.lastMessageTime = now,
            !.messageCount = b.messageCount + 1]

(***************************************************************************)
(* MemoryStore.  Its methods are operators on the record                   *)
(* [users, connections, rooms, rateLimiters, ws]: joinRoom writes the      *)
(* roomId of a socket, so the sockets are part of what the store changes.  *)
(***************************************************************************)
Cur ==
  [users |-> users, connections |-> connections, rooms |-> rooms,
   rateLimiters |-> rateLimiters, ws |-> ws]

Commit(st) ==
  /\ users' = st.users
  /\ connections' = st.connections
  /\ rooms' = st.rooms
  /\ rateLimiters' = st.rateLimiters
  /\ ws' = st.ws

joinRoom(st, userId, roomId) ==
  LET members == IF roomId \in DOMAIN st.rooms THEN st.rooms[roomId] ELSE << >>
      rooms1 == MapSet(st.rooms, roomId, SetAdd(members, userId))
  IN [st EXCEPT !.rooms = rooms1,
                !.ws = IF userId \in DOMAIN st.connections
                       THEN [st.ws EXCEPT ![st.connections[userId]].roomId = roomId]
                       ELSE st.ws]

(* Mutant: every addUser installs a new bucket. *)
EnsureRateLimiterAlwaysNew(limiters, userId, now) == MapSet(limiters, userId, NewLimiter(now))

EnsureRateLimiter(limiters, userId, now) ==
  IF userId \in DOMAIN limiters THEN limiters
  ELSE MapSet(limiters, userId, NewLimiter(now))

addUser(st, userId, displayName, c, now) ==
  joinRoom([st EXCEPT !.users = MapSet(st.users, userId, displayName),
                      !.connections = MapSet(st.connections, userId, c),
                      !.rateLimiters = EnsureRateLimiter(st.rateLimiters, userId, now)],
           userId, "default")

(* Mutant: a room left empty keeps its record. *)
RoomsWithoutKeepingEmpty(rms, userId) == [r \in DOMAIN rms |-> SetDelete(rms[r], userId)]

(* rooms.forEach: every room loses the user; a room left empty is deleted. *)
RoomsWithout(rms, userId) ==
  LET kept == {r \in DOMAIN rms : SetDelete(rms[r], userId) # << >>}
  IN [r \in kept |-> SetDelete(rms[r], userId)]

removeUser(st, userId) ==
  [st EXCEPT !.users = MapDelete(st.users, userId),
             !.connections = MapDelete(st.connections, userId),
             !.rooms = RoomsWithout(st.rooms, userId)]

updateDisplayName(st, userId, displayName) ==
  IF userId \in DOMAIN st.users
  THEN [st EXCEPT !.users = MapSet(st.users, userId, displayName)]
  ELSE st

(* The members of a room that have a user record, in the Set's order. *)
getRoomMembers(st, roomId) ==
  IF roomId \notin DOMAIN st.rooms THEN << >>
  ELSE LET ids == SelectSeq(st.rooms[roomId], LAMBDA id : id \in DOMAIN st.users)
       IN [i \in 1 .. Len(ids) |-> [id |-> ids[i], displayName |-> st.users[ids[i]]]]

Frame(c, roomId, frame) == [to |-> c, room |-> roomId, frame |-> frame]

(* A member gets the frame when its registered socket is OPEN. *)
Receives(st, userId, excludeUserId) ==
  /\ userId # excludeUserId
  /\ userId \in DOMAIN st.connections
  /\ st.ws[st.connections[userId]].readyState = "OPEN"

(* Mutant: the fan-out stops after the first recipient. *)
broadcastToRoomFirstOnly(st, roomId, frame, excludeUserId) ==
  IF roomId \notin DOMAIN st.rooms THEN << >>
  ELSE LET to == SelectSeq(st.rooms[roomId], LAMBDA id : Receives(st, id, excludeUserId))
       IN [i \in 1 .. Min(1, Len(to)) |-> Frame(st.connections[to[i]], roomId, frame)]

broadcastToRoom(st, roomId, frame, excludeUserId) ==
  IF roomId \notin DOMAIN st.rooms THEN << >>
  ELSE LET to == SelectSeq(st.rooms[roomId], LAMBDA id : Receives(st, id, excludeUserId))
       IN [i \in 1 .. Len(to) |-> Frame(st.connections[to[i]], roomId, frame)]

NoExclude == ""

PresenceFrame(st, roomId) == [type |-> "presence", users |-> getRoomMembers(st, roomId)]

broadcastPresence(st, roomId) ==
  broadcastToRoom(st, roomId, PresenceFrame(st, roomId), NoExclude)

ErrorFrame(code, msg) == [type |-> "error", code |-> code, msg |-> msg]
sendError(c, code, msg) == << Frame(c, "", ErrorFrame(code, msg)) >>

(***************************************************************************)
(* MessageRepository.  A row is [id, roomId, userId, displayName, text,    *)
(* ts].  An id is ulid(): 48 bits of the clock, then 80 random bits, so    *)
(* ids compare as the pairs << ts, rand >>.                                *)
(***************************************************************************)
Row(id, roomId, userId, displayName, text, ts) ==
  [id |-> id, roomId |-> roomId, userId |-> userId, displayName |-> displayName,
   text |-> text, ts |-> ts]

createMessage(roomId, userId, displayName, text, now, rand) ==
  Row(<< now, rand >>, roomId, userId, displayName, text, now)

RECURSIVE Perms(_)
Perms(S) ==
  IF S = {} THEN {<< >>}
  ELSE UNION {{<< x >> \o p : p \in Perms(S \ {x})} : x \in S}

Take(q, n) == SubSeq(q, 1, Min(n, Len(q)))

(* The rows `idx` sorted by ts, one of the orders SQL may choose. *)
SortedByTs(idx, desc) ==
  LET asc == SortSeq(SelectSeq([i \in 1 .. Len(messages) |-> i], LAMBDA i : i \in idx),
                     LAMBDA a, b : messages[a].ts < messages[b].ts)
  IN IF desc THEN Reverse(asc) ELSE asc

(* Every order of `s` that permutes rows of equal ts among themselves. *)
RECURSIVE TieOrders(_)
TieOrders(s) ==
  IF Cardinality({messages[s[i]].ts : i \in 1 .. Len(s)}) = Len(s) THEN {s}
  ELSE LET k == Cardinality({i \in 1 .. Len(s) : messages[s[i]].ts = messages[s[1]].ts})
       IN {p \o q : p \in Perms({s[i] : i \in 1 .. k}),
                    q \in TieOrders(SubSeq(s, k + 1, Len(s)))}

(* The orders in which a SELECT ... ORDER BY ts may return the rows `idx`: *)
(* rows of equal ts come in an order SQL leaves open.                      *)
OrderedByTs(idx, desc) == TieOrders(SortedByTs(idx, desc))

(* Mutant: the rows are rendered with the name the user has now. *)
RowsAtCurrentName(p) ==
  [i \in 1 .. Len(p) |->
     IF messages[p[i]].userId \in DOMAIN users
     THEN [messages[p[i]] EXCEPT !.displayName = users[messages[p[i]].userId]]
     ELSE messages[p[i]]]

RowsAt(p) == [i \in 1 .. Len(p) |-> messages[p[i]]]

(* Mutant: the rows are not put back in ascending order. *)
getRecentMessagesNewestFirst(roomId, limit) ==
  {RowsAt(Take(p, limit)) :
     p \in OrderedByTs({i \in 1 .. Len(messages) : messages[i].roomId = roomId}, TRUE)}

(* The possible results of getRecentMessages(roomId, limit). *)
getRecentMessages(roomId, limit) ==
  {Reverse(RowsAt(Take(p, limit))) :
     p \in OrderedByTs({i \in 1 .. Len(messages) : messages[i].roomId = roomId}, TRUE)}

(* Mutant: the bound is off by one millisecond. *)
getMessagesSinceLate(roomId, sinceTs) ==
  {RowsAt(p) :
     p \in OrderedByTs({i \in 1 .. Len(messages) :
                          messages[i].roomId = roomId /\ messages[i].ts > sinceTs + 1}, FALSE)}

(* The possible results of getMessagesSince(roomId, sinceTs). *)
getMessagesSince(roomId, sinceTs) ==
  {RowsAt(p) :
     p \in OrderedByTs({i \in 1 .. Len(messages) :
                          messages[i].roomId = roomId /\ messages[i].ts > sinceTs}, FALSE)}

(* Mutant: the row whose ts is the cutoff is deleted too. *)
cleanupByTtlInclusive(rows, now) == SelectSeq(rows, LAMBDA m : ~(m.ts <= now - TtlMs))

(* cleanupByTtl(): DELETE FROM messages WHERE ts < Date.now() - ttlMs. *)
cleanupByTtl(rows, now) == SelectSeq(rows, LAMBDA m : ~(m.ts < now - TtlMs))

(* The table `rows` without the rows at the indices D. *)
Without(rows, D) ==
  LET keep == SelectSeq([i \in 1 .. Len(rows) |-> i], LAMBDA i : i \notin D)
  IN [k \in 1 .. Len(keep) |-> rows[keep[k]]]

(* The tables cleanupByCount(roomId, maxCount) may leave: the rows of the  *)
(* room after the first maxCount in ORDER BY ts DESC are deleted; which of *)
(* the rows of equal ts come first is open.                                *)
cleanupByCount(rows, roomId, maxCount) ==
  LET idx == {i \in 1 .. Len(rows) : rows[i].roomId = roomId} IN
  IF Cardinality(idx) <= maxCount THEN {rows}
  ELSE LET Newer(i) == Cardinality({j \in idx : rows[j].ts > rows[i].ts})
           NotOlder(i) == Cardinality({j \in idx : rows[j].ts >= rows[i].ts})
           gone == {i \in idx : Newer(i) >= maxCount}
           kept == {i \in idx : NotOlder(i) <= maxCount}
           k == Cardinality(idx) - maxCount - Cardinality(gone)
       IN {Without(rows, gone \cup tied) :
             tied \in {t \in SUBSET (idx \ (gone \cup kept)) : Cardinality(t) = k}}

(***************************************************************************)
(* WebSocketChatServer: the upgrade handler.                               *)
(***************************************************************************)
allowedOrigins == {NEXTAUTH_URL, "http://localhost:3000", "https://localhost:3000"}
(* Mutant: the allow-list is not consulted. *)
OriginAllowedUnchecked(origin) == origin # NoOrigin

OriginAllowed(origin) == origin # NoOrigin /\ origin \in allowedOrigins

Authenticated(token) == token # NoToken /\ token.userId # ""

(* The answer of the upgrade handler: the socket is destroyed, an HTTP     *)
(* status is written, or the upgrade is performed (101).                   *)
UpgradeAnswer(pathOk, token, origin) ==
  IF ~pathOk THEN "destroyed"
  ELSE IF ~Authenticated(token) THEN "401"
  ELSE IF ~OriginAllowed(origin) THEN "403"
  ELSE "101"

FreeConns == {c \in Conns : ws[c].readyState = "NONE"}
NextConn == CHOOSE c \in FreeConns : \A d \in FreeConns : c <= d

HelloFrame(st, userId) ==
  [type |-> "hello", selfId |-> userId, users |-> getRoomMembers(st, "default")]

(* handleConnection(ws, token) for the new socket c. *)
handleConnection(c, token) ==
  LET userId == token.userId
      displayName == IF token.displayName = EmptyStr THEN Anonymous ELSE token.displayName
      st0 == [Cur EXCEPT !.ws[c] = [readyState |-> "OPEN", userId |-> userId,
                                    displayName |-> displayName, roomId |-> ""]]
      st1 == addUser(st0, userId, displayName, c, clock)
  IN /\ Commit(st1)
     /\ sent' = << Frame(c, "default", HelloFrame(st1, userId)) >>
                  \o broadcastPresence(st1, "default")

(* What the upgrade handler writes on the raw socket of a refused upgrade. *)
HttpAnswer(status) == << Frame(0, "", [type |-> "http", status |-> status]) >>

Upgrade(pathOk, token, origin) ==
  LET answer == UpgradeAnswer(pathOk, token, origin) IN
  /\ answer = "101" => FreeConns # {}
  /\ IF answer = "101"
     THEN handleConnection(NextConn, token)
     ELSE /\ sent' = HttpAnswer(answer)
          /\ UNCHANGED << ws, users, connections, rooms, rateLimiters >>
  /\ UNCHANGED << clock, messages, typingUsers, timers, job, client >>

(***************************************************************************)
(* WebSocketChatServer: the handlers of inbound frames.  A frame is        *)
(* handled for a socket whose readyState is OPEN.                          *)
(***************************************************************************)
HistoryFrame(roomId, msgs) ==
  [type |-> "history", roomId |-> roomId, messages |-> msgs,
   nextCursor |-> IF Len(msgs) > 0 THEN << [beforeTs |-> msgs[1].ts] >> ELSE << >>]

(* The history handleJoin may answer: `if (sinceTs)` takes 0 as absent, and *)
(* a beforeId selects the same rows as no cursor at all.                    *)
JoinHistory(roomId, sinceTs, beforeId) ==
  IF sinceTs # NoSince /\ sinceTs # 0
  THEN getMessagesSince(roomId, sinceTs)
  ELSE IF beforeId # NoBefore
  THEN getRecentMessages(roomId, RecentLimit)
  ELSE getRecentMessages(roomId, RecentLimit)

Join(c, roomId, sinceTs, beforeId) ==
  /\ ws[c].readyState = "OPEN"
  /\ LET st1 == joinRoom(Cur, ws[c].userId, roomId) IN
     \E msgs \in JoinHistory(roomId, sinceTs, beforeId) :
       /\ Commit(st1)
       /\ sent' = << Frame(c, roomId, HistoryFrame(roomId, msgs)) >>
                    \o broadcastPresence(st1, roomId)
  /\ UNCHANGED << clock, messages, typingUsers, timers, job, client >>

MessageFrame(m) ==
  [type |-> "message", id |-> m.id, roomId |-> m.roomId, userId |-> m.userId,
   displayName |-> m.displayName, text |-> m.text, ts |-> m.ts]

(* MessageSchema: text is a string of at most 2000 characters. *)
MessageSchemaOk(text) == TextLength(text) <= MaxTextLen

(* Mutant: a failed INSERT is not noticed. *)
ChatOutcomeIgnoringFailure(c, text, fail) ==
  IF ~MessageSchemaOk(text) THEN "BAD_REQUEST"
  ELSE IF ws[c].displayName = EmptyStr THEN "ignored"
  ELSE IF /\ ws[c].userId \in DOMAIN rateLimiters
          /\ Limited(refillTokens(rateLimiters[ws[c].userId], clock)) THEN "RATE_LIMIT"
  ELSE "ok"

(* What handleMessage and handleChatMessage answer to a message frame. *)
ChatOutcome(c, text, fail) ==
  IF ~MessageSchemaOk(text) THEN "BAD_REQUEST"
  ELSE IF ws[c].displayName = EmptyStr THEN "ignored"
  ELSE IF /\ ws[c].userId \in DOMAIN rateLimiters
          /\ Limited(refillTokens(rateLimiters[ws[c].userId], clock)) THEN "RATE_LIMIT"
  ELSE IF fail THEN "SERVER_ERROR"
  ELSE "ok"

(* The buckets after the frame: isRateLimited refills, recordMessage spends. *)
ChatLimiters(userId, outcome) ==
  IF outcome \in {"BAD_REQUEST", "ignored"} \/ userId \notin DOMAIN rateLimiters
  THEN rateLimiters
  ELSE LET refilled == refillTokens(rateLimiters[userId], clock) IN
       [rateLimiters EXCEPT ![userId] =
          IF outcome = "ok" THEN recordMessage(refilled, clock) ELSE refilled]

(* Mutant: the frame of a row goes out with the next accepted message. *)
ChatFramesDeferred(c, roomId, m, outcome) ==
  CASE outcome = "ok" ->
         IF messages = << >> THEN << >>
         ELSE broadcastToRoom(Cur, roomId, MessageFrame(messages[Len(messages)]), NoExclude)
    [] outcome = "RATE_LIMIT" -> sendError(c, "RATE_LIMIT", "Too many messages. Slow down.")
    [] outcome = "BAD_REQUEST" -> sendError(c, "BAD_REQUEST", "Invalid message data")
    [] outcome = "SERVER_ERROR" -> sendError(c, "SERVER_ERROR", "Internal server error")
    [] OTHER -> << >>

ChatFrames(c, roomId, m, outcome) ==
  CASE outcome = "ok" -> broadcastToRoom(Cur, roomId, MessageFrame(m), NoExclude)
    [] outcome = "RATE_LIMIT" -> sendError(c, "RATE_LIMIT", "Too many messages. Slow down.")
    [] outcome = "BAD_REQUEST" -> sendError(c, "BAD_REQUEST", "Invalid message data")
    [] outcome = "SERVER_ERROR" -> sendError(c, "SERVER_ERROR", "Internal server error")
    [] OTHER -> << >>

(* A message frame on socket c; rand is the random part of the new id and  *)
(* fail says that the INSERT throws.  An id already in the table makes the *)
(* INSERT throw, so a successful one has a fresh id.                       *)
ChatMessage(c, roomId, text, rand, fail) ==
  /\ ws[c].readyState = "OPEN"
  /\ LET userId == ws[c].userId
         outcome == ChatOutcome(c, text, fail)
         m == createMessage(roomId, userId, ws[c].displayName, text, clock, rand)
     IN /\ outcome = "ok" => \A i \in 1 .. Len(messages) : messages[i].id # m.id
        /\ messages' = IF outcome = "ok" THEN Append(messages, m) ELSE messages
        /\ rateLimiters' = ChatLimiters(userId, outcome)
        /\ sent' = ChatFrames(c, roomId, m, outcome)
  /\ UNCHANGED << clock, ws, users, connections, rooms, typingUsers, timers, job, client >>

(* The fan-out of a frame when ws.send throws on the socket of user bad:   *)
(* forEach ends there, so only the members before bad have the frame.      *)
broadcastToRoomThrows(st, roomId, frame, excludeUserId, bad) ==
  IF roomId \notin DOMAIN st.rooms THEN << >>
  ELSE LET to == SelectSeq(st.rooms[roomId], LAMBDA id : Receives(st, id, excludeUserId))
           before == CHOOSE k \in 0 .. Len(to) :
                       /\ \A i \in 1 .. k : to[i] # bad
                       /\ k < Len(to) => to[k + 1] = bad
       IN [i \in 1 .. before |-> Frame(st.connections[to[i]], roomId, frame)]

(* An accepted message frame on socket c whose fan-out fails on the socket *)
(* of member bad.  The send either throws (thrown), and the exception ends *)
(* the fan-out and reaches the catch of handleMessage, or it fails later   *)
(* in the socket, which then leaves OPEN and is closed by its events.      *)
ChatMessageSendFails(c, roomId, text, rand, bad, thrown) ==
  /\ ws[c].readyState = "OPEN"
  /\ ChatOutcome(c, text, FALSE) = "ok"
  /\ roomId \in DOMAIN rooms
  /\ bad \in SeqToSet(rooms[roomId])
  /\ bad # ws[c].userId
  /\ Receives(Cur, bad, NoExclude)
  /\ LET userId == ws[c].userId
         m == createMessage(roomId, userId, ws[c].displayName, text, clock, rand)
     IN /\ \A i \in 1 .. Len(messages) : messages[i].id # m.id
        /\ messages' = Append(messages, m)
        /\ rateLimiters' = ChatLimiters(userId, "ok")
        /\ IF thrown
           THEN /\ sent' = broadcastToRoomThrows(Cur, roomId, MessageFrame(m), NoExclude, bad)
                             \o sendError(c, "SERVER_ERROR", "Internal server error")
                /\ ws' = ws
           ELSE /\ sent' = SelectSeq(broadcastToRoom(Cur, roomId, MessageFrame(m), NoExclude),
                                     LAMBDA f : f.to # connections[bad])
                /\ ws' = [ws EXCEPT ![connections[bad]].readyState = "CLOSING"]
  /\ UNCHANGED << clock, users, connections, rooms, typingUsers, timers, job, client >>

(* SetNameSchema: displayName is a string of 1 to 50 characters. *)
MaxNameLen == 50
SetNameSchemaOk(name) == TextLength(name) >= 1 /\ TextLength(name) <= MaxNameLen

SetName(c, name) ==
  /\ ws[c].readyState = "OPEN"
  /\ IF SetNameSchemaOk(name)
     THEN LET st0 == [Cur EXCEPT !.ws[c].displayName = name]
              st1 == updateDisplayName(st0, ws[c].userId, name)
          IN /\ Commit(st1)
             /\ sent' = IF ws[c].roomId # "" THEN broadcastPresence(st1, ws[c].roomId)
                        ELSE << >>
     ELSE /\ UNCHANGED << ws, users, connections, rooms, rateLimiters >>
          /\ sent' = sendError(c, "BAD_REQUEST", "Invalid message data")
  /\ UNCHANGED << clock, messages, typingUsers, timers, job, client >>

(* A frame that is not JSON, or whose type is none of the known ones. *)
BadFrame(c, isJson) ==
  /\ ws[c].readyState = "OPEN"
  /\ sent' = sendError(c, "BAD_REQUEST",
                       IF isJson THEN "Unknown message type" ELSE "Invalid message format")
  /\ UNCHANGED << clock, ws, users, connections, rooms, rateLimiters, messages, typingUsers, timers, job, client >>

(* A frame whose text is the JSON value null: message.type throws inside  *)
(* the try of handleMessage, and the catch answers as for any other error. *)
NullFrame(c) ==
  /\ ws[c].readyState = "OPEN"
  /\ sent' = sendError(c, "SERVER_ERROR", "Internal server error")
  /\ UNCHANGED << clock, ws, users, connections, rooms, rateLimiters, messages, typingUsers, timers, job, client >>

(***************************************************************************)
(* Typing marks.  A timer of setTimeout is [roomId, userId, due]; the map  *)
(* typingUsers holds, for each marked user of a room, the timer armed for  *)
(* it, and timers holds the timers that are pending.                       *)
(***************************************************************************)
TypingMs == 3000

Timer(roomId, userId, due) == [roomId |-> roomId, userId |-> userId, due |-> due]

RemoveAt(s, i) == SubSeq(s, 1, i - 1) \o SubSeq(s, i + 1, Len(s))

clearTimeout(ts, t) ==
  IF \E i \in 1 .. Len(ts) : ts[i] = t
  THEN RemoveAt(ts, CHOOSE i \in 1 .. Len(ts) :
                      ts[i] = t /\ \A j \in 1 .. i - 1 : ts[j] # t)
  ELSE ts

(* Mutant: the timer of the earlier typing_start stays pending. *)
startTypingKeepsTimer(st, tu, ts, userId, roomId, now) ==
  LET roomTyping == IF roomId \in DOMAIN tu THEN tu[roomId] ELSE EmptyMap
      timeout == Timer(roomId, userId, now + TypingMs)
  IN [typingUsers |-> MapSet(tu, roomId, MapSet(roomTyping, userId, timeout)),
      timers |-> Append(ts, timeout),
      frames |-> IF userId \in DOMAIN st.users
                 THEN broadcastToRoom(st, roomId,
                        [type |-> "user_typing", roomId |-> roomId, userId |-> userId,
                         displayName |-> st.users[userId]], userId)
                 ELSE << >>]

startTyping(st, tu, ts, userId, roomId, now) ==
  LET roomTyping == IF roomId \in DOMAIN tu THEN tu[roomId] ELSE EmptyMap
      cleared == IF userId \in DOMAIN roomTyping
                 THEN clearTimeout(ts, roomTyping[userId]) ELSE ts
      timeout == Timer(roomId, userId, now + TypingMs)
  IN [typingUsers |-> MapSet(tu, roomId, MapSet(roomTyping, userId, timeout)),
      timers |-> Append(cleared, timeout),
      frames |-> IF userId \in DOMAIN st.users
                 THEN broadcastToRoom(st, roomId,
                        [type |-> "user_typing", roomId |-> roomId, userId |-> userId,
                         displayName |-> st.users[userId]], userId)
                 ELSE << >>]

stopTyping(st, tu, ts, userId, roomId) ==
  IF roomId \notin DOMAIN tu THEN [typingUsers |-> tu, timers |-> ts, frames |-> << >>]
  ELSE LET roomTyping == tu[roomId]
           marked == userId \in DOMAIN roomTyping
           rest == IF marked THEN MapDelete(roomTyping, userId) ELSE roomTyping
       IN [typingUsers |-> IF DOMAIN rest = {} THEN MapDelete(tu, roomId)
                           ELSE MapSet(tu, roomId, rest),
           timers |-> IF marked THEN clearTimeout(ts, roomTyping[userId]) ELSE ts,
           frames |-> IF marked
                      THEN broadcastToRoom(st, roomId,
                             [type |-> "user_typing_stop", roomId |-> roomId,
                              userId |-> userId], userId)
                      ELSE << >>]

(* A typing_start frame on socket c. *)
TypingStart(c, roomId) ==
  /\ ws[c].readyState = "OPEN"
  /\ LET r == startTyping(Cur, typingUsers, timers, ws[c].userId, roomId, clock) IN
       /\ typingUsers' = r.typingUsers
       /\ timers' = r.timers
       /\ sent' = r.frames
  /\ UNCHANGED << clock, ws, users, connections, rooms, rateLimiters, messages, job, client >>

(* A typing_stop frame on socket c. *)
TypingStop(c, roomId) ==
  /\ ws[c].readyState = "OPEN"
  /\ LET r == stopTyping(Cur, typingUsers, timers, ws[c].userId, roomId) IN
       /\ typingUsers' = r.typingUsers
       /\ timers' = r.timers
       /\ sent' = r.frames
  /\ UNCHANGED << clock, ws, users, connections, rooms, rateLimiters, messages, job, client >>

(* The callback of a pending timer that is due. *)
TypingTimeout(i) ==
  /\ i \in 1 .. Len(timers)
  /\ timers[i].due <= clock
  /\ LET t == timers[i]
         r == stopTyping(Cur, typingUsers, RemoveAt(timers, i), t.userId, t.roomId)
     IN /\ typingUsers' = r.typingUsers
        /\ timers' = r.timers
        /\ sent' = r.frames
  /\ UNCHANGED << clock, ws, users, connections, rooms, rateLimiters, messages, job, client >>

(***************************************************************************)
(* The end of a socket.  Its readyState leaves OPEN (BeginClose, or with   *)
(* the 'error' event); the 'close' event follows, once.  Both the 'error'  *)
(* and the 'close' listener run handleDisconnection.                       *)
(***************************************************************************)
handleDisconnection(st, c) ==
  LET roomId == st.ws[c].roomId
      st1 == removeUser(st, st.ws[c].userId)
  IN [st |-> st1, frames |-> IF roomId # "" THEN broadcastPresence(st1, roomId) ELSE << >>]

(* After its 'close' event nothing refers to a socket any more. *)
ClosedSocket == [NoSocket EXCEPT !.readyState = "CLOSED"]

Disconnect(c, readyState) ==
  LET r == handleDisconnection([Cur EXCEPT !.ws[c].readyState = readyState], c) IN
  /\ Commit(IF readyState = "CLOSED" THEN [r.st EXCEPT !.ws[c] = ClosedSocket] ELSE r.st)
  /\ sent' = r.frames
  /\ UNCHANGED << clock, messages, typingUsers, timers, job, client >>

BeginClose(c) ==
  /\ ws[c].readyState = "OPEN"
  /\ ws' = [ws EXCEPT ![c].readyState = "CLOSING"]
  /\ UNCHANGED << clock, users, connections, rooms, rateLimiters, messages, sent, typingUsers, timers, job, client >>

WsError(c) ==
  /\ ws[c].readyState = "OPEN"
  /\ Disconnect(c, "CLOSING")

WsClose(c) ==
  /\ ws[c].readyState \in {"OPEN", "CLOSING"}
  /\ Disconnect(c, "CLOSED")

(***************************************************************************)
(* The cleanup job: the callback of setInterval in startCleanupJob.        *)
(***************************************************************************)
Sweep ==
  /\ intervals # {}
  /\ \E rows \in cleanupByCount(cleanupByTtl(messages, clock), "default", MaxCount) :
       messages' = rows
  /\ sent' = << >>
  /\ UNCHANGED << clock, ws, users, connections, rooms, rateLimiters, typingUsers, timers, job, client >>

(* A tick of the cleanup job in which a statement throws: cleanupByTtl     *)
(* ("ttl"), or cleanupByCount after cleanupByTtl has run ("count").  The   *)
(* catch of the callback logs the error.                                   *)
LogFrame(msg) == << Frame(0, "", [type |-> "log", msg |-> msg]) >>

(* Mutant: the callback has no try/catch. *)
SweepFailureUncaught(rows, now, stage) ==
  [rows |-> IF stage = "ttl" THEN rows ELSE cleanupByTtl(rows, now),
   uncaught |-> TRUE,
   log |-> << >>]

SweepFailure(rows, now, stage) ==
  [rows |-> IF stage = "ttl" THEN rows ELSE cleanupByTtl(rows, now),
   uncaught |-> FALSE,
   log |-> LogFrame("Cleanup job error")]

SweepFails(stage) ==
  /\ intervals # {}
  /\ LET r == SweepFailure(messages, clock, stage) IN
       /\ messages' = r.rows
       /\ uncaught' = (uncaught \/ r.uncaught)
       /\ sent' = r.log
  /\ UNCHANGED << clock, ws, users, connections, rooms, rateLimiters, typingUsers, timers,
                  cleanupInterval, intervals, client >>

(* Mutant: a second call arms a second timer. *)
startCleanupJobUnguarded(handle, active) ==
  LET h == CHOOSE n \in 1 .. Cardinality(active) + 1 : n \notin active IN
  [cleanupInterval |-> h, intervals |-> active \cup {h}]

(* startCleanupJob(): nothing when a handle is held, else setInterval. *)
startCleanupJob(handle, active) ==
  IF handle # NoInterval THEN [cleanupInterval |-> handle, intervals |-> active]
  ELSE LET h == CHOOSE n \in 1 .. Cardinality(active) + 1 : n \notin active IN
       [cleanupInterval |-> h, intervals |-> active \cup {h}]

StartCleanupJob ==
  /\ LET r == startCleanupJob(cleanupInterval, intervals) IN
       /\ cleanupInterval' = r.cleanupInterval
       /\ intervals' = r.intervals
  /\ sent' = << >>
  /\ UNCHANGED << clock, ws, users, connections, rooms, rateLimiters, messages, typingUsers,
                  timers, uncaught, client >>

(* stopCleanupJob(): clearInterval of the handle held. *)
StopCleanupJob ==
  /\ IF cleanupInterval # NoInterval
     THEN /\ intervals' = intervals \ {cleanupInterval}
          /\ cleanupInterval' = NoInterval
     ELSE UNCHANGED << cleanupInterval, intervals >>
  /\ sent' = << >>
  /\ UNCHANGED << clock, ws, users, connections, rooms, rateLimiters, messages, typingUsers,
                  timers, uncaught, client >>

(***************************************************************************)
(* WebSocketClient (websocket-client.ts).                                  *)
(***************************************************************************)
maxReconnectAttempts == 5
reconnectDelay == 1000

Live(cl) == DOMAIN cl.socks

createConnection(cl) ==
  LET s == CHOOSE n \in 1 .. Cardinality(Live(cl)) + 1 : n \notin Live(cl) IN
  [cl EXCEPT !.socks = MapSet(cl.socks, s, "CONNECTING"), !.ws = s]

scheduleReconnect(cl) ==
  IF cl.reconnectAttempts >= maxReconnectAttempts
  THEN [cl EXCEPT !.connectionFailed = TRUE]
  ELSE [cl EXCEPT !.isReconnecting = TRUE,
                  !.retries = Append(@, reconnectDelay * 2 ^ cl.reconnectAttempts)]

connect(cl) ==
  IF cl.ws # 0 /\ cl.socks[cl.ws] = "OPEN" THEN cl
  ELSE createConnection([cl EXCEPT !.shouldReconnect = TRUE])

disconnect(cl) ==
  [cl EXCEPT !.shouldReconnect = FALSE,
             !.socks = IF cl.ws # 0 THEN [@ EXCEPT ![cl.ws] = "CLOSING"] ELSE @,
             !.ws = 0]

(* send(): the frame leaves when the socket held is OPEN, else send throws. *)
CanSend(cl) == cl.ws # 0 /\ cl.socks[cl.ws] = "OPEN"

JoinFrame(roomId, sinceTs) == [type |-> "join", roomId |-> roomId, sinceTs |-> sinceTs]

(* ws.onopen of socket s. *)
onopen(cl, s) ==
  LET cl1 == [cl EXCEPT !.socks[s] = "OPEN", !.reconnectAttempts = 0,
                        !.isReconnecting = FALSE]
      sinceTs == IF cl.lastSyncTs > 0 THEN cl.lastSyncTs ELSE NoSince
  IN IF CanSend(cl1)
     THEN [cl1 EXCEPT !.outbox = << JoinFrame(cl.currentRoomId, sinceTs) >>]
     ELSE cl1

(* ws.onclose of socket s. *)
onclose(cl, s) ==
  LET cl1 == [cl EXCEPT !.socks = MapDelete(@, s), !.ws = 0] IN
  IF cl1.shouldReconnect /\ ~cl1.isReconnecting THEN scheduleReconnect(cl1) ELSE cl1

(* The callback of the timer of scheduleReconnect. *)
retry(cl, i) ==
  createConnection([cl EXCEPT !.retries = RemoveAt(@, i),
                              !.reconnectAttempts = @ + 1])

(* handleMessage of the client for one frame of the server. *)
clientHandleMessage(cl, f) ==
  CASE f.type = "message" ->
         [cl EXCEPT !.lastSyncTs = Max(@, f.ts), !.delivered = Append(@, f.id)]
    [] f.type = "history" ->
         [cl EXCEPT !.lastSyncTs =
                      IF Len(f.messages) > 0
                      THEN Max(@, CHOOSE t \in {f.messages[k].ts : k \in 1 .. Len(f.messages)} :
                                    \A k \in 1 .. Len(f.messages) : f.messages[k].ts <= t)
                      ELSE @,
                    !.delivered = @ \o [k \in 1 .. Len(f.messages) |-> f.messages[k].id],
                    !.outbox = << >>]
    [] OTHER -> cl

RECURSIVE clientHandleAll(_, _)
clientHandleAll(cl, fs) ==
  IF fs = << >> THEN cl ELSE clientHandleAll(clientHandleMessage(cl, Head(fs)), Tail(fs))

ServerVars ==
  << clock, ws, users, connections, rooms, rateLimiters, messages, typingUsers, timers, job >>

ClientConnect ==
  /\ client' = [connect(client) EXCEPT !.connectionFailed = FALSE]
  /\ UNCHANGED << ServerVars, sent >>

ClientDisconnect ==
  /\ client' = disconnect(client)
  /\ UNCHANGED << ServerVars, sent >>

ClientOnOpen(s) ==
  /\ s \in Live(client) /\ client.socks[s] = "CONNECTING"
  /\ client' = onopen(client, s)
  /\ UNCHANGED << ServerVars, sent >>

ClientOnClose(s) ==
  /\ s \in Live(client)
  /\ client' = onclose(client, s)
  /\ UNCHANGED << ServerVars, sent >>

ClientRetry(i) ==
  /\ i \in 1 .. Len(client.retries)
  /\ client' = retry(client, i)
  /\ UNCHANGED << ServerVars, sent >>

(* The server socket of the client's user, 0 when it has none. *)
ClientSock == IF "u1" \in DOMAIN connections THEN connections["u1"] ELSE 0

(* The frames of the last handler that are on their way to the client. *)
Pending ==
  IF ClientSock = 0 \/ Live(client) = {} THEN << >>
  ELSE SelectSeq(sent, LAMBDA f : f.to = ClientSock)

(* ws.onmessage of the client for the frames on their way, in order. *)
Deliver ==
  /\ CanSend(client)
  /\ Pending # << >>
  /\ client' = clientHandleAll(client, [k \in 1 .. Len(Pending) |-> Pending[k].frame])
  /\ sent' = << >>
  /\ UNCHANGED ServerVars

(***************************************************************************)
(* Time passes.                                                            *)
(***************************************************************************)
Tick(d) ==
  /\ clock' = clock + d
  /\ UNCHANGED << ws, users, connections, rooms, rateLimiters, messages, sent, typingUsers, timers, job, client >>

(***************************************************************************)
(* Spec: the life of connections.  Upgrades with every credential and     *)
(* origin, joins, and the close and error events of every socket.          *)
(***************************************************************************)
UpgradeInputs ==
  {<< TRUE, token, origin >> : token \in Tokens, origin \in Origins}
    \cup {<< FALSE, token, "http://localhost:3000" >> : token \in Tokens}

Next ==
  \/ \E in \in UpgradeInputs : Upgrade(in[1], in[2], in[3])
  \/ \E c \in Conns, roomId \in RoomIds : Join(c, roomId, NoSince, NoBefore)
  \/ \E c \in Conns : BeginClose(c)
  \/ \E c \in Conns : WsError(c)
  \/ \E c \in Conns : WsClose(c)

Spec == Init /\ [][Next]_vars

(***************************************************************************)
(* SpecChat: the frames of admitted connections.  Users upgrade with a     *)
(* valid session and an allowed origin; sockets join, rename, send         *)
(* messages of every kind of text and frames that do not decode, and       *)
(* close.  The random part of each new id differs from the ones before.    *)
(***************************************************************************)
SessionToken(u) == [userId |-> u, displayName |-> SessionName(u)]
GoodOrigin == "http://localhost:3000"

NextChat ==
  \/ \E u \in UserIds : Upgrade(TRUE, SessionToken(u), GoodOrigin)
  \/ \E c \in Conns, roomId \in RoomIds : Join(c, roomId, NoSince, NoBefore)
  \/ /\ Len(messages) < MaxMsgs
     /\ \E c \in Conns, roomId \in RoomIds, text \in Texts, fail \in BOOLEAN :
          ChatMessage(c, roomId, text, Len(messages), fail)
  \/ \E c \in Conns, name \in {Zed, EmptyStr} : SetName(c, name)
  \/ \E c \in Conns, isJson \in BOOLEAN : BadFrame(c, isJson)
  \/ \E c \in Conns : BeginClose(c)
  \/ \E c \in Conns : WsClose(c)

SpecChat == Init /\ [][NextChat]_vars

(***************************************************************************)
(* SpecBurst: one user against its token bucket.  The user upgrades,       *)
(* sends messages to the default room, disconnects and reconnects, while   *)
(* the clock advances in steps of TickMs.                                  *)
(***************************************************************************)
TickMs == 400

NextBurst ==
  \/ Upgrade(TRUE, SessionToken("u1"), GoodOrigin)
  \/ /\ Len(messages) < MaxBurstMsgs
     /\ \E c \in Conns : ChatMessage(c, "default", TxtHi, Len(messages), FALSE)
  \/ \E c \in Conns : WsClose(c)
  \/ clock + TickMs <= Epoch + MaxBurstTicks * TickMs /\ Tick(TickMs)

SpecBurst == Init /\ [][NextBurst]_vars

(***************************************************************************)
(* SpecSkew: SpecBurst under a clock that may also be set back.            *)
(***************************************************************************)
SkewMs == 1000

NextSkew ==
  \/ Upgrade(TRUE, SessionToken("u1"), GoodOrigin)
  \/ /\ Len(messages) < MaxSkewMsgs
     /\ \E c \in Conns : ChatMessage(c, "default", TxtHi, Len(messages), FALSE)
  \/ \E c \in Conns : WsClose(c)
  \/ clock + SkewMs <= Epoch + MaxSkewTicks * SkewMs /\ Tick(SkewMs)
  \/ clock - SkewMs >= Epoch - MaxSkewTicks * SkewMs /\ Tick(0 - SkewMs)

SpecSkew == Init /\ [][NextSkew]_vars

(***************************************************************************)
(* SpecHistory: one user fills the default room, one message per step of   *)
(* the clock, joins it with and without since_ts, disconnects and comes    *)
(* back.                                                                   *)
(***************************************************************************)
HistSince == {0, Epoch - 1, Epoch + TickMs - 1}

NextHistory ==
  \/ Upgrade(TRUE, SessionToken("u1"), GoodOrigin)
  \/ /\ Len(messages) < MaxHistMsgs
     /\ \E c \in Conns : ChatMessage(c, "default", TxtHi, 0, FALSE)
  \/ \E c \in Conns, sinceTs \in HistSince \cup {NoSince} : Join(c, "default", sinceTs, NoBefore)
  \/ \E c \in Conns : WsClose(c)
  \/ (\E i \in 1 .. Len(messages) : messages[i].ts = clock) /\ Tick(TickMs)

SpecHistory == Init /\ [][NextHistory]_vars


(***************************************************************************)
(* SpecIds: two users send to the default room, several messages within    *)
(* one millisecond; the random part of each id is any value.               *)
(***************************************************************************)
NextIds ==
  \/ \E u \in UserIds : Upgrade(TRUE, SessionToken(u), GoodOrigin)
  \/ /\ Len(messages) < MaxIdMsgs
     /\ \E c \in Conns, rand \in 0 .. MaxRand : ChatMessage(c, "default", TxtHi, rand, FALSE)
  \/ \E c \in Conns : WsClose(c)
  \/ clock + 1 <= Epoch + MaxIdTicks /\ Tick(1)

SpecIds == Init /\ [][NextIds]_vars

(***************************************************************************)
(* SpecCap: one user fills one room past the cap, one message per step of  *)
(* the clock, while the cleanup job runs.                                  *)
(***************************************************************************)
NextCap ==
  \/ Upgrade(TRUE, SessionToken("u1"), GoodOrigin)
  \/ /\ Len(messages) < MaxCapMsgs
     /\ \E c \in Conns, roomId \in RoomIds :
          /\ \A i \in 1 .. Len(messages) : messages[i].roomId = roomId
          /\ ChatMessage(c, roomId, TxtHi, 0, FALSE)
  \/ /\ \E i \in 1 .. Len(messages) : messages[i].ts = clock
     /\ clock + TickMs <= Epoch + MaxCapTicks * TickMs
     /\ Tick(TickMs)
  \/ Sweep

SpecCap == Init /\ [][NextCap]_vars

(***************************************************************************)
(* SpecTtl: messages in both rooms while the clock advances by half days   *)
(* and the cleanup job runs.                                               *)
(***************************************************************************)
HalfDayMs == 43200000

NextTtl ==
  \/ Upgrade(TRUE, SessionToken("u1"), GoodOrigin)
  \/ /\ Len(messages) < MaxTtlMsgs
     /\ \E c \in Conns, roomId \in RoomIds : ChatMessage(c, roomId, TxtHi, Len(messages), FALSE)
  \/ \E c \in Conns : WsClose(c)
  \/ clock + HalfDayMs <= Epoch + MaxTtlTicks * HalfDayMs /\ Tick(HalfDayMs)
  \/ Sweep

SpecTtl == Init /\ [][NextTtl]_vars

(***************************************************************************)
(* SpecFrames: frames of every shape.  Two users send frames that do not   *)
(* decode, names and texts at the limits of their schemas, and a text with *)
(* mentions.                                                               *)
(***************************************************************************)
FrameNames == {Zed, EmptyStr, NameBlank, NameLong}
FrameTexts == {TxtMention, TxtOver}

NextFrames ==
  \/ \E u \in UserIds : Upgrade(TRUE, SessionToken(u), GoodOrigin)
  \/ \E c \in Conns : Join(c, "lobby", NoSince, NoBefore)
  \/ /\ Len(messages) < MaxFrameMsgs
     /\ \E c \in Conns, text \in FrameTexts : ChatMessage(c, "default", text, Len(messages), FALSE)
  \/ \E c \in Conns, name \in FrameNames : SetName(c, name)
  \/ \E c \in Conns, isJson \in BOOLEAN : BadFrame(c, isJson)
  \/ \E c \in Conns : NullFrame(c)
  \/ \E c \in Conns : WsClose(c)

SpecFrames == Init /\ [][NextFrames]_vars

(***************************************************************************)
(* SpecFail: messages whose fan-out fails on one recipient.                *)
(***************************************************************************)
NextFail ==
  \/ \E u \in UserIds : Upgrade(TRUE, SessionToken(u), GoodOrigin)
  \/ \E c \in Conns : Join(c, "lobby", NoSince, NoBefore)
  \/ /\ Len(messages) < MaxFailMsgs
     /\ \E c \in Conns, roomId \in RoomIds : ChatMessage(c, roomId, TxtHi, Len(messages), FALSE)
  \/ /\ Len(messages) < MaxFailMsgs
     /\ \E c \in Conns, roomId \in RoomIds, bad \in UserIds, thrown \in BOOLEAN :
          ChatMessageSendFails(c, roomId, TxtHi, Len(messages), bad, thrown)
  \/ \E c \in Conns : WsError(c)
  \/ \E c \in Conns : WsClose(c)

SpecFail == Init /\ [][NextFail]_vars

(***************************************************************************)
(* SpecTyping: typing marks.  Two users start and stop typing in both      *)
(* rooms and close their sockets while the clock advances by half the life *)
(* of a mark; a timer runs when it is due, before more time passes.        *)
(***************************************************************************)
TypingTickMs == 1500

NextTyping ==
  \/ \E u \in UserIds : Upgrade(TRUE, SessionToken(u), GoodOrigin)
  \/ \E c \in Conns, roomId \in RoomIds : TypingStart(c, roomId)
  \/ \E c \in Conns, roomId \in RoomIds : TypingStop(c, roomId)
  \/ \E i \in 1 .. Len(timers) : TypingTimeout(i)
  \/ \E c \in Conns : WsClose(c)
  \/ /\ clock + TypingTickMs <= Epoch + MaxTypingTicks * TypingTickMs
     /\ \A i \in 1 .. Len(timers) : clock + TypingTickMs <= timers[i].due
     /\ Tick(TypingTickMs)

SpecTyping == Init /\ [][NextTyping]_vars

(***************************************************************************)
(* SpecPage: two users send to the default room while the clock advances   *)
(* and join it with the id of a stored message as beforeId.                *)
(***************************************************************************)
NextPage ==
  \/ \E u \in UserIds : Upgrade(TRUE, SessionToken(u), GoodOrigin)
  \/ /\ Len(messages) < MaxPageMsgs
     /\ \E c \in Conns : ChatMessage(c, "default", TxtHi, Len(messages), FALSE)
  \/ \E c \in Conns, i \in 1 .. Len(messages) : Join(c, "default", NoSince, messages[i].id)
  \/ \E c \in Conns : Join(c, "default", NoSince, NoBefore)
  \/ clock + 1 <= Epoch + MaxPageTicks /\ Tick(1)

SpecPage == Init /\ [][NextPage]_vars

(***************************************************************************)
(* SpecCapTie: as SpecCap in room default, but the first millisecond may   *)
(* take two messages.                                                      *)
(***************************************************************************)
NextCapTie ==
  \/ Upgrade(TRUE, SessionToken("u1"), GoodOrigin)
  \/ /\ Len(messages) < MaxCapMsgs
     /\ LET n == Cardinality({i \in 1 .. Len(messages) : messages[i].ts = clock}) IN
          /\ n = 0 \/ (n = 1 /\ clock = Epoch)
          /\ \E c \in Conns : ChatMessage(c, "default", TxtHi, n, FALSE)
  \/ /\ \E i \in 1 .. Len(messages) : messages[i].ts = clock
     /\ clock + TickMs <= Epoch + MaxCapTicks * TickMs
     /\ Tick(TickMs)
  \/ Sweep

SpecCapTie == Init /\ [][NextCapTie]_vars

(***************************************************************************)
(* SpecJob: the cleanup job is started and stopped any number of times and *)
(* its ticks succeed or throw, while a user sends messages and the clock   *)
(* advances by half days.                                                  *)
(***************************************************************************)
SweepStages == {"ttl", "count"}

NextJob ==
  \/ Upgrade(TRUE, SessionToken("u1"), GoodOrigin)
  \/ /\ Len(messages) < MaxJobMsgs
     /\ \E c \in Conns : ChatMessage(c, "default", TxtHi, Len(messages), FALSE)
  \/ Cardinality(intervals) < MaxIntervals /\ StartCleanupJob
  \/ StopCleanupJob
  \/ Sweep
  \/ \E stage \in SweepStages : SweepFails(stage)
  \/ \E c \in Conns : WsClose(c)
  \/ clock + HalfDayMs <= Epoch + MaxJobTicks * HalfDayMs /\ Tick(HalfDayMs)

SpecJob == Init /\ [][NextJob]_vars

(***************************************************************************)
(* SpecRooms: the member sets of the rooms.  Two users upgrade, also a     *)
(* second time, join both rooms, send every kind of frame and close.       *)
(***************************************************************************)
NextRooms ==
  \/ \E u \in UserIds : Upgrade(TRUE, SessionToken(u), GoodOrigin)
  \/ \E c \in Conns, roomId \in RoomIds : Join(c, roomId, NoSince, NoBefore)
  \/ /\ Len(messages) < MaxRoomMsgs
     /\ \E c \in Conns, roomId \in RoomIds : ChatMessage(c, roomId, TxtHi, Len(messages), FALSE)
  \/ \E c \in Conns : SetName(c, Zed)
  \/ \E c \in Conns : TypingStart(c, "lobby")
  \/ \E c \in Conns : TypingStop(c, "lobby")
  \/ \E c \in Conns : WsError(c)
  \/ \E c \in Conns : WsClose(c)

SpecRooms == Init /\ [][NextRooms]_vars

(***************************************************************************)
(* SpecClient: a WebSocketClient alone.  The application calls connect and *)
(* disconnect, sockets open and close, and the timers of scheduleReconnect *)
(* run.                                                                    *)
(***************************************************************************)
NextClient ==
  \/ Cardinality(Live(client)) < MaxClientSocks /\ ClientConnect
  \/ ClientDisconnect
  \/ \E s \in 1 .. MaxClientSocks : ClientOnOpen(s)
  \/ /\ Len(client.retries) < MaxRetries
     /\ \E s \in 1 .. MaxClientSocks : ClientOnClose(s)
  \/ /\ Cardinality(Live(client)) < MaxClientSocks
     /\ \E i \in 1 .. MaxRetries : ClientRetry(i)

SpecClient == Init /\ [][NextClient]_vars

(***************************************************************************)
(* SpecSync: the client of user u1 and the server.  The client connects,   *)
(* sends messages, loses its connection and reconnects; the server admits  *)
(* it once its earlier socket is gone and handles the join the client      *)
(* sends when its socket opens, while the clock advances.  Frames reach    *)
(* the client before the server handles anything else, unless the client's *)
(* socket closes first.                                                    *)
(***************************************************************************)
NextSync ==
  \/ /\ Live(client) = {} /\ ClientSock = 0
     /\ ClientConnect
  \/ /\ Live(client) = {} /\ ClientSock = 0
     /\ \E i \in 1 .. MaxRetries : ClientRetry(i)
  \/ /\ ClientSock # 0 /\ ws[ClientSock].readyState = "OPEN"
     /\ \E s \in 1 .. MaxClientSocks : ClientOnOpen(s)
  \/ /\ Len(client.retries) < MaxRetries
     /\ \E s \in 1 .. MaxClientSocks : ClientOnClose(s)
  \/ Deliver
  \/ /\ Pending = << >> /\ ClientSock = 0
     /\ \E s \in Live(client) : client.socks[s] = "CONNECTING"
     /\ Upgrade(TRUE, SessionToken("u1"), GoodOrigin)
  \/ /\ Pending = << >> /\ ClientSock # 0 /\ CanSend(client) /\ client.outbox # << >>
     /\ Join(ClientSock, client.outbox[1].roomId, client.outbox[1].sinceTs, NoBefore)
  \/ /\ Pending = << >> /\ ClientSock # 0 /\ CanSend(client)
     /\ Len(messages) < MaxSyncMsgs
     /\ ChatMessage(ClientSock, "default", TxtHi, Len(messages), FALSE)
  \/ Pending = << >> /\ ClientSock # 0 /\ WsClose(ClientSock)
  \/ Pending = << >> /\ clock + 1 <= Epoch + MaxSyncTicks /\ Tick(1)

SpecSync == Init /\ [][NextSync]_vars

(***************************************************************************)
(*                      Claims checked under Spec                          *)
(***************************************************************************)
IsPresence(f) == f.frame.type = "presence"
Listed(f, u) == Cardinality({i \in 1 .. Len(f.frame.users) : f.frame.users[i].id = u})
IsMember(rms, roomId, u) == roomId \in DOMAIN rms /\ u \in SeqToSet(rms[roomId])
RoomsOf(rms, u) == {r \in DOMAIN rms : u \in SeqToSet(rms[r])}
IsErrorTo(f, c, code) == f.to = c /\ f.frame.type = "error" /\ f.frame.code = code

(* Socket c is not the registered socket of its user, whose registered     *)
(* socket d is OPEN: c was superseded by d.                                *)
Superseded(c, d) ==
  /\ c # d
  /\ ws[c].readyState \in {"OPEN", "CLOSING"}
  /\ ws[c].userId \in DOMAIN connections
  /\ connections[ws[c].userId] = d
  /\ ws[d].readyState = "OPEN"

(* C1: a close or error event on a superseded socket of user U leaves U    *)
(* registered: while the newer socket d stays open, connections[U] = d, U  *)
(* has a user record, U is a member of the rooms it was in, and every      *)
(* presence frame sent for those rooms lists U exactly once.               *)
C1_SupersededCloseKeepsUser ==
  [][\A c, d \in Conns :
       (Superseded(c, d) /\ (WsClose(c) \/ WsError(c)))
         => LET U == ws[c].userId IN
            /\ U \in DOMAIN connections' /\ connections'[U] = d
            /\ U \in DOMAIN users'
            /\ RoomsOf(rooms', U) = RoomsOf(rooms, U)
            /\ \A i \in 1 .. Len(sent') :
                 (IsPresence(sent'[i]) /\ sent'[i].room \in RoomsOf(rooms, U))
                   => Listed(sent'[i], U) = 1]_vars

(* C2: when an upgrade is admitted for a user whose registered socket is   *)
(* open, that prior socket is sent an error frame with code UNAUTH and is  *)
(* closed by the server, so that afterwards it is no longer OPEN.          *)
C2_PriorSocketClosed ==
  [][\A in \in UpgradeInputs :
       (/\ Upgrade(in[1], in[2], in[3])
        /\ UpgradeAnswer(in[1], in[2], in[3]) = "101"
        /\ in[2].userId \in DOMAIN connections
        /\ ws[connections[in[2].userId]].readyState = "OPEN")
         => LET old == connections[in[2].userId] IN
            /\ \E i \in 1 .. Len(sent') : IsErrorTo(sent'[i], old, "UNAUTH")
            /\ ws'[old].readyState # "OPEN"]_vars

(* The allow-list and the valid credentials, as the claim states them. *)
C10_AllowList == {"http://localhost:3000", "https://localhost:3000", NEXTAUTH_URL}
C10_Valid(token) == token.userId \in UserIds

(* C10: an upgrade without a valid credential is answered 401, one with a  *)
(* valid credential and a missing or disallowed Origin 403, and neither    *)
(* changes the registry, the sockets or the store nor sends a frame; a     *)
(* socket is registered only by an upgrade with a valid credential and an  *)
(* allowed Origin.                                                         *)
C10_UpgradeGuards ==
  [][\A in \in UpgradeInputs :
       (in[1] /\ Upgrade(in[1], in[2], in[3]))
         => /\ ~C10_Valid(in[2])
                 => /\ sent' = HttpAnswer("401")
                    /\ UNCHANGED << ws, users, connections, rooms, rateLimiters, messages >>
            /\ (C10_Valid(in[2]) /\ in[3] \notin C10_AllowList)
                 => /\ sent' = HttpAnswer("403")
                    /\ UNCHANGED << ws, users, connections, rooms, rateLimiters, messages >>
            /\ (ws' # ws \/ users' # users \/ connections' # connections \/ rooms' # rooms)
                 => (C10_Valid(in[2]) /\ in[3] \in C10_AllowList)]_vars

(* A refused upgrade with a valid credential: 403 was answered. *)
C10_Witness == sent = HttpAnswer("403")

(***************************************************************************)
(*                    Claims checked under SpecChat                        *)
(***************************************************************************)
FramesTo(q, c) == {i \in 1 .. Len(q) : q[i].to = c}
HasOpenConnection(u) ==
  u \in DOMAIN connections /\ ws[connections[u]].readyState = "OPEN"
Accepted == Len(messages') = Len(messages) + 1
NewRow == messages'[Len(messages')]

OnlyErrorTo(q, c, code) == Len(q) = 1 /\ IsErrorTo(q[1], c, code)

(* C8: a message frame whose room is not the room its socket is in is      *)
(* answered with BAD_REQUEST to the sender alone; no row is stored, no     *)
(* token is spent.                                                         *)
C8_WrongRoomRejected ==
  [][\A c \in Conns, roomId \in RoomIds, text \in Texts, fail \in BOOLEAN :
       (ChatMessage(c, roomId, text, Len(messages), fail) /\ roomId # ws[c].roomId)
         => /\ OnlyErrorTo(sent', c, "BAD_REQUEST")
            /\ messages' = messages
            /\ rateLimiters' = rateLimiters]_vars

(* C9: a message frame whose text, trimmed, is empty or longer than 2000   *)
(* characters is answered with BAD_REQUEST; no row is stored and nothing   *)
(* is broadcast.                                                           *)
C9_TextRejected ==
  [][\A c \in Conns, roomId \in RoomIds, text \in Texts, fail \in BOOLEAN :
       (/\ ChatMessage(c, roomId, text, Len(messages), fail)
        /\ (TextLength(Trim(text)) < 1 \/ TextLength(Trim(text)) > 2000))
         => /\ OnlyErrorTo(sent', c, "BAD_REQUEST")
            /\ messages' = messages]_vars

(***************************************************************************)
(*                    Claims checked under SpecBurst                       *)
(***************************************************************************)
AllAtOnce == \A i \in 1 .. Len(messages) : messages[i].ts = clock

RowsOfUser(u) == {i \in 1 .. Len(messages) : messages[i].userId = u}

(* C5: the rows of one user stored within any interval of T seconds number *)
(* at most 10 + 3 * T.                                                     *)
C5_RateBound ==
  \A u \in UserIds : \A i, j \in RowsOfUser(u) :
    i <= j =>
      Cardinality({k \in RowsOfUser(u) : i <= k /\ k <= j}) * 1000
        <= 10 * 1000 + 3 * (messages[j].ts - messages[i].ts)

(* Eleven rows of one user within one step of the clock. *)
C5_Witness ==
  /\ Len(messages) >= 11
  /\ messages[11].ts > messages[1].ts
  /\ messages[11].ts - messages[1].ts <= TickMs

(* C7: a bucket, once created, is never removed, no upgrade and no close   *)
(* changes it, and its tokens grow only by what the elapsed time refills.  *)
C7_BucketSurvives ==
  [][/\ \A u \in DOMAIN rateLimiters :
          /\ u \in DOMAIN rateLimiters'
          /\ rateLimiters'[u].tokens > rateLimiters[u].tokens
               => rateLimiters'[u].tokens - rateLimiters[u].tokens
                    <= 3 * (clock - rateLimiters[u].lastRefill)
     /\ (Upgrade(TRUE, SessionToken("u1"), GoodOrigin) \/ \E c \in Conns : WsClose(c))
          => \A u \in DOMAIN rateLimiters : rateLimiters'[u] = rateLimiters[u]]_vars

(* The user drained the bucket on socket 1, closed it, came back on socket *)
(* 2 at the same instant and was refused there.                            *)
C7_Witness ==
  /\ ws[1].readyState = "CLOSED" /\ ws[2].readyState = "OPEN"
  /\ Len(messages) = 10 /\ AllAtOnce
  /\ OnlyErrorTo(sent, 2, "RATE_LIMIT")
  /\ rateLimiters["u1"].tokens < 1000

(***************************************************************************)
(*                    Claims checked under SpecSkew                        *)
(***************************************************************************)
(* C6: every bucket holds between 0 and 10 tokens, whatever the clock does. *)
C6_TokensInRange ==
  \A u \in DOMAIN rateLimiters :
    0 <= rateLimiters[u].tokens /\ rateLimiters[u].tokens <= 10 * 1000

(***************************************************************************)
(*                   Claims checked under SpecHistory                      *)
(***************************************************************************)
RowsOfRoom(roomId) == {i \in 1 .. Len(messages) : messages[i].roomId = roomId}
Ascending(h) == \A k \in 1 .. Len(h) - 1 : h[k].ts <= h[k + 1].ts
Holds(h, m) == Cardinality({k \in 1 .. Len(h) : h[k] = m})
(* The cursor is absent from an empty history, else the smallest ts in it. *)
CursorOk(f) ==
  IF Len(f.messages) = 0 THEN f.nextCursor = << >>
  ELSE /\ f.nextCursor = << [beforeTs |-> f.messages[1].ts] >>
       /\ \A k \in 1 .. Len(f.messages) : f.messages[1].ts <= f.messages[k].ts
(* The first frame sent is a history frame of the room to socket c. *)
HistoryTo(q, c, roomId) ==
  /\ Len(q) >= 1 /\ q[1].to = c
  /\ q[1].frame.type = "history" /\ q[1].frame.roomId = roomId

(* C11: a join with since_ts = t, for every t >= 0, t = 0 included, is     *)
(* answered with a history frame holding exactly the stored rows of the    *)
(* room with ts > t, each once, oldest first; the cursor is absent when    *)
(* there are none and else carries the smallest ts returned.               *)
C11_SinceHistory ==
  [][\A c \in Conns, t \in HistSince :
       Join(c, "default", t, NoBefore)
         => /\ HistoryTo(sent', c, "default")
            /\ LET f == sent'[1].frame IN
                 /\ Ascending(f.messages)
                 /\ CursorOk(f)
                 /\ \A k \in 1 .. Len(f.messages) :
                      f.messages[k].roomId = "default" /\ f.messages[k].ts > t
                 /\ \A i \in RowsOfRoom("default") :
                      Holds(f.messages, messages[i]) = (IF messages[i].ts > t THEN 1 ELSE 0)]_vars

C13_RecentHistory ==
  [][\A c \in Conns :
       Join(c, "default", NoSince, NoBefore)
         => /\ HistoryTo(sent', c, "default")
            /\ LET f == sent'[1].frame
                   n == Cardinality(RowsOfRoom("default"))
               IN /\ Len(f.messages) = (IF n < 100 THEN n ELSE 100)
                  /\ Ascending(f.messages)
                  /\ CursorOk(f)
                  /\ \A i \in RowsOfRoom("default") :
                       /\ Holds(f.messages, messages[i]) <= 1
                       /\ Holds(f.messages, messages[i]) = 0
                            => messages[i].ts <= f.messages[1].ts
                  /\ \A k \in 1 .. Len(f.messages) :
                       \E i \in RowsOfRoom("default") : f.messages[k] = messages[i]]_vars

(* The room holds 101 rows and the history sent holds the 100 newest. *)
C13_Witness ==
  /\ Len(messages) = 101
  /\ HistoryTo(sent, sent[1].to, "default")
  /\ Len(sent[1].frame.messages) = 100
  /\ sent[1].frame.messages[1] = messages[2]
  /\ sent[1].frame.nextCursor = << [beforeTs |-> messages[2].ts] >>

(***************************************************************************)
(*                     Claims checked under SpecIds                        *)
(***************************************************************************)
(* Ids compare as strings: by the clock part, then by the random part. *)
IdLess(a, b) == a[1] < b[1] \/ (a[1] = b[1] /\ a[2] < b[2])

(* C14: of two rows of one room, the one appended first has the smaller or *)
(* equal ts and the smaller id, also when both were appended within one    *)
(* millisecond.                                                            *)
C14_IdMonotone ==
  \A i, j \in 1 .. Len(messages) :
    (i < j /\ messages[i].roomId = messages[j].roomId)
      => messages[i].ts <= messages[j].ts /\ IdLess(messages[i].id, messages[j].id)

MessageFrames(q) == {k \in 1 .. Len(q) : q[k].frame.type = "message"}

(* C20: message frames leave in the order of the appends: a step that      *)
(* sends message frames appends one row at the end of the table and sends  *)
(* the frame of that row and of no other, once to each recipient, so no    *)
(* recipient gets the frame of a row after that of a row appended later.   *)
C20_FanOutInAppendOrder ==
  [][(MessageFrames(sent') # {} /\ ~(sent' = sent /\ messages' = messages))
       => /\ Accepted
          /\ messages' = Append(messages, NewRow)
          /\ \A k \in MessageFrames(sent') :
               /\ sent'[k].frame.id = NewRow.id
               /\ \A l \in MessageFrames(sent') : sent'[l].to = sent'[k].to => l = k]_vars

(* Two users sent one after the other and both received the later frame. *)
C20_Witness ==
  /\ Len(messages) >= 2
  /\ messages[Len(messages)].userId # messages[Len(messages) - 1].userId
  /\ Len(sent) = 2 /\ sent[1].to # sent[2].to
  /\ \A k \in 1 .. 2 :
       sent[k].frame.type = "message" /\ sent[k].frame.id = messages[Len(messages)].id

(***************************************************************************)
(*              Claims checked under SpecChat (continued)                  *)
(***************************************************************************)
(* C19: a stored row carries the display name its sender's connection had  *)
(* when the frame was handled; no step changes a stored row, and a history *)
(* frame shows each row as it is stored.                                   *)
C19_NameSnapshot ==
  [][/\ \A i \in 1 .. Len(messages) : \A j \in 1 .. Len(messages') :
          messages'[j].id = messages[i].id => messages'[j] = messages[i]
     /\ \A c \in Conns, roomId \in RoomIds, text \in Texts :
          (ChatMessage(c, roomId, text, Len(messages), FALSE) /\ Accepted)
            => NewRow.displayName = ws[c].displayName
     /\ \A k \in 1 .. Len(sent') :
          sent'[k].frame.type = "history"
            => \A h \in 1 .. Len(sent'[k].frame.messages) :
                 \E i \in 1 .. Len(messages') : messages'[i] = sent'[k].frame.messages[h]]_vars

(* A user sent a message, took another name, and the history of the room   *)
(* shows the message under the name it was sent with.                      *)
C19_Witness ==
  /\ Len(sent) >= 1 /\ sent[1].frame.type = "history"
  /\ \E h \in 1 .. Len(sent[1].frame.messages) :
       LET m == sent[1].frame.messages[h] IN
         /\ m.userId \in DOMAIN users
         /\ users[m.userId] = Zed
         /\ m.displayName # Zed

(***************************************************************************)
(*                 Claims about presence (Spec, SpecChat)                  *)
(***************************************************************************)
MembersOf(rms, roomId) == IF roomId \in DOMAIN rms THEN SeqToSet(rms[roomId]) ELSE {}
Registered(c) == ws[c].userId \in DOMAIN connections /\ connections[ws[c].userId] = c
(* After the step, user u has an open registered socket, and that socket   *)
(* was sent a presence frame of the room that satisfies P.                 *)
OpenAfter(u) == u \in DOMAIN connections' /\ ws'[connections'[u]].readyState = "OPEN"
ExactPresence(f, roomId) ==
  /\ IsPresence(f) /\ f.room = roomId
  /\ \A u \in UserIds : Listed(f, u) = (IF IsMember(rooms', roomId, u) THEN 1 ELSE 0)

(* C17: when a user connects or its registered socket closes, every room   *)
(* whose member set changed is sent a presence frame: each member of the   *)
(* room with an open socket gets a frame listing exactly the members the   *)
(* room has now, each once.                                                *)
C17_PresenceOnAttachDetach ==
  [][((\E in \in UpgradeInputs : Upgrade(in[1], in[2], in[3]))
        \/ \E c \in Conns : Registered(c) /\ (WsClose(c) \/ WsError(c)))
       => \A roomId \in RoomIds :
            MembersOf(rooms, roomId) # MembersOf(rooms', roomId)
              => \A u \in MembersOf(rooms', roomId) :
                   OpenAfter(u)
                     => \E k \in 1 .. Len(sent') :
                          sent'[k].to = connections'[u] /\ ExactPresence(sent'[k], roomId)]_vars

(* C18: after an accepted set_name every room the user is a member of is   *)
(* sent a presence frame showing the new name: each member of such a room  *)
(* with an open socket gets one.                                           *)
C18_RenamePresence ==
  [][\A c \in Conns :
       (Registered(c) /\ SetName(c, Zed))
         => \A roomId \in RoomsOf(rooms, ws[c].userId) :
              \A u \in MembersOf(rooms, roomId) :
                OpenAfter(u)
                  => \E k \in 1 .. Len(sent') :
                       /\ sent'[k].to = connections'[u]
                       /\ IsPresence(sent'[k]) /\ sent'[k].room = roomId
                       /\ \E i \in 1 .. Len(sent'[k].frame.users) :
                            sent'[k].frame.users[i] = [id |-> ws[c].userId, displayName |-> Zed]]_vars

(***************************************************************************)
(*                Claims about retention (SpecCap, SpecTtl)                *)
(***************************************************************************)
RowsIn(q, roomId) == {i \in 1 .. Len(q) : q[i].roomId = roomId}
StillStored(m) == \E j \in 1 .. Len(messages') : messages'[j] = m

(* C15: after a run of the cleanup job every room, whichever its id, holds *)
(* at most 500 rows, and no row it lost is newer than a row it kept.       *)
C15_CapEveryRoom ==
  [][Sweep
       => \A roomId \in RoomIds :
            /\ Cardinality(RowsIn(messages', roomId)) <= 500
            /\ \A i \in RowsIn(messages, roomId) :
                 ~StillStored(messages[i])
                   => \A j \in RowsIn(messages', roomId) : messages[i].ts <= messages'[j].ts]_vars

(* C16: after a run of the cleanup job at time now no row with             *)
(* ts < now - 24h is stored, and a row with ts >= now - 24h is lost only   *)
(* to the cap of its room, never to the TTL.                               *)
C16_TtlExact ==
  [][Sweep
       => /\ \A j \in 1 .. Len(messages') : messages'[j].ts >= clock - 24 * 60 * 60 * 1000
          /\ \A i \in 1 .. Len(messages) :
               (/\ messages[i].ts >= clock - 24 * 60 * 60 * 1000
                /\ Cardinality(RowsIn(messages, messages[i].roomId)) <= 500)
                 => StillStored(messages[i])]_vars

(* The cleanup job ran: the row sent 24 hours ago to the millisecond is    *)
(* stored, the row sent before it is gone.                                 *)
C16_Witness ==
  /\ sent = << >>
  /\ Len(messages) = 1
  /\ messages[1].ts = clock - 24 * 60 * 60 * 1000
  /\ messages[1].id[2] = 1

(***************************************************************************)
(*              Claims checked under SpecChat (delivery)                   *)
(***************************************************************************)
(* The message ids that the frames q carry to socket c, in message frames  *)
(* and inside history frames.                                              *)
IdsTo(q, c) ==
  {q[k].frame.id : k \in {k \in 1 .. Len(q) : q[k].to = c /\ q[k].frame.type = "message"}}
    \cup UNION {{q[k].frame.messages[h].id : h \in 1 .. Len(q[k].frame.messages)} :
                  k \in {k \in 1 .. Len(q) : q[k].to = c /\ q[k].frame.type = "history"}}

(* C21: no socket is sent one message id twice, live frames and history    *)
(* frames counted together: what a handler sends to a socket shares no id  *)
(* with what the handler before it sent to that socket.                    *)
C21_NoIdTwice ==
  [][sent' # sent => \A c \in Conns : IdsTo(sent, c) \cap IdsTo(sent', c) = {}]_vars

(* C22: when the INSERT of a message fails, the sender alone is sent one   *)
(* error frame with code SERVER_ERROR, no row is stored, no message frame  *)
(* is sent, and the sender's socket stays as it was, open; and a message   *)
(* frame is only ever sent for a stored row.                               *)
C22_PersistFailure ==
  [][/\ \A c \in Conns, roomId \in RoomIds, text \in Texts :
          (ChatMessage(c, roomId, text, Len(messages), TRUE) /\ TextLength(text) <= 2000)
            => /\ OnlyErrorTo(sent', c, "SERVER_ERROR")
               /\ messages' = messages
               /\ ws' = ws /\ ws[c].readyState = "OPEN"
               /\ users' = users /\ connections' = connections /\ rooms' = rooms
     /\ sent' # sent
          => \A k \in 1 .. Len(sent') :
               sent'[k].frame.type = "message"
                 => \E i \in 1 .. Len(messages') : messages'[i].id = sent'[k].frame.id]_vars

(* The INSERT failed: the sender, still open, holds the SERVER_ERROR frame *)
(* and the table is empty, with another user in the room.                  *)
C22_Witness ==
  /\ Len(sent) = 1 /\ sent[1].frame.type = "error" /\ sent[1].frame.code = "SERVER_ERROR"
  /\ ws[sent[1].to].readyState = "OPEN"
  /\ messages = << >>
  /\ Cardinality(DOMAIN connections) = 2

(***************************************************************************)
(*                 Claims about the first frames (Spec)                    *)
(***************************************************************************)
Admitted(in) == in[1] /\ C10_Valid(in[2]) /\ in[3] \in C10_AllowList

(* C27: after a successful upgrade the new socket is a member of room      *)
(* 'default' and is sent first a hello frame, with its user id as selfId   *)
(* and itself in the snapshot, and after it a history frame of 'default'.  *)
C27_HelloThenHistory ==
  [][\A in \in UpgradeInputs :
       (Admitted(in) /\ Upgrade(in[1], in[2], in[3]))
         => LET c == NextConn
                mine == {k \in 1 .. Len(sent') : sent'[k].to = c}
            IN /\ IsMember(rooms', "default", in[2].userId)
               /\ mine # {}
               /\ \A k \in mine :
                    (\A l \in mine : k <= l)
                      => /\ sent'[k].frame.type = "hello"
                         /\ sent'[k].frame.selfId = in[2].userId
                         /\ \E i \in 1 .. Len(sent'[k].frame.users) :
                              sent'[k].frame.users[i].id = in[2].userId
               /\ \E k \in mine :
                    sent'[k].frame.type = "history" /\ sent'[k].frame.roomId = "default"]_vars

(***************************************************************************)
(*                Claims checked under SpecSkew (continued)                *)
(***************************************************************************)
(* C28: a refill whose clock reading is earlier than the bucket's          *)
(* lastRefill leaves the tokens as they are and sets lastRefill to the     *)
(* reading: after the message frame that caused it the bucket holds what   *)
(* it held, less the one token of an accepted message.                     *)
C28_SkewLeavesTokens ==
  [][\A c \in Conns :
       (/\ ChatMessage(c, "default", TxtHi, Len(messages), FALSE)
        /\ ws[c].userId \in DOMAIN rateLimiters
        /\ clock < rateLimiters[ws[c].userId].lastRefill)
         => LET b == rateLimiters[ws[c].userId]
                b1 == rateLimiters'[ws[c].userId]
            IN /\ b1.lastRefill = clock
               /\ b1.tokens = (IF Accepted THEN b.tokens - 1000 ELSE b.tokens)]_vars

(***************************************************************************)
(*                    Claims checked under SpecFrames                      *)
(***************************************************************************)
HubUnchanged ==
  /\ users' = users /\ connections' = connections /\ rooms' = rooms
  /\ rateLimiters' = rateLimiters /\ messages' = messages /\ ws' = ws

(* C23: a frame that does not decode (text that is not JSON, JSON that is  *)
(* no object with a known type, a known type that violates its schema) is  *)
(* answered with one error frame with code BAD_REQUEST to the sender; the  *)
(* hub's state does not change and the socket stays open.                  *)
C23_DecodeFailure ==
  [][\A c \in Conns :
       (\/ \E isJson \in BOOLEAN : BadFrame(c, isJson)
        \/ NullFrame(c)
        \/ ChatMessage(c, "default", TxtOver, Len(messages), FALSE)
        \/ SetName(c, EmptyStr))
         => /\ OnlyErrorTo(sent', c, "BAD_REQUEST")
            /\ HubUnchanged
            /\ ws'[c].readyState = "OPEN"]_vars

(* The words that follow an @ in a text. *)
RECURSIVE MentionTokens(_)
MentionTokens(t) ==
  IF Len(t) < 2 THEN << >>
  ELSE IF t[1].ch = "@" THEN << t[2].ch >> \o MentionTokens(Tail(Tail(t)))
  ELSE MentionTokens(Tail(t))
Lower(w) ==
  CASE w = "Bob" -> "bob" [] w = "Alice" -> "alice" [] w = "Zed" -> "zed" [] OTHER -> w
(* The members of the room, in order, whose display name is the word w in  *)
(* any case.                                                               *)
Named(roomId, w) ==
  IF roomId \notin DOMAIN rooms THEN << >>
  ELSE SelectSeq(rooms[roomId],
                 LAMBDA u : /\ u \in DOMAIN users
                            /\ Len(users[u]) = 1
                            /\ Lower(users[u][1].ch) = Lower(w))
RECURSIVE Resolve(_, _, _)
Resolve(roomId, tokens, acc) ==
  IF tokens = << >> THEN acc
  ELSE Resolve(roomId, Tail(tokens),
               acc \o SelectSeq(Named(roomId, Head(tokens)),
                                LAMBDA u : u \notin SeqToSet(acc)))
(* The mentions a frame or row carries; none when it has no such field. *)
MentionsOf(f) == IF "mentions" \in DOMAIN f THEN f.mentions ELSE << >>

(* C24: the stored row and every frame of an accepted message carry as     *)
(* mentions the ids, without repeats and in order of first occurrence, of  *)
(* the members of the room whose display name is an @token of the text in  *)
(* any case; a token that names no member adds nothing.                    *)
C24_Mentions ==
  [][\A c \in Conns :
       (ChatMessage(c, "default", TxtMention, Len(messages), FALSE) /\ Accepted)
         => LET expected == Resolve("default", MentionTokens(TxtMention), << >>) IN
              /\ MentionsOf(NewRow) = expected
              /\ \A k \in 1 .. Len(sent') :
                   sent'[k].frame.type = "message" => MentionsOf(sent'[k].frame) = expected]_vars

(* C30: a set_name whose name, trimmed, is empty or longer than 50         *)
(* characters is answered with BAD_REQUEST; the user's name, the socket's  *)
(* name and the rooms are left as they were.                               *)
C30_NameRejected ==
  [][\A c \in Conns, name \in FrameNames :
       (/\ SetName(c, name)
        /\ (TextLength(Trim(name)) < 1 \/ TextLength(Trim(name)) > 50))
         => /\ OnlyErrorTo(sent', c, "BAD_REQUEST")
            /\ users' = users /\ ws' = ws /\ rooms' = rooms]_vars

(***************************************************************************)
(*                     Claims checked under SpecFail                       *)
(***************************************************************************)
(* C29: when the send to one recipient of a room broadcast fails, every    *)
(* other member of the room with an open socket still gets the frame, the  *)
(* socket of the failing recipient is the one that leaves OPEN, and the    *)
(* sender gets no error frame and keeps its socket.                        *)
C29_SendFailureIsolated ==
  [][\A c \in Conns, roomId \in RoomIds, bad \in UserIds, thrown \in BOOLEAN :
       ChatMessageSendFails(c, roomId, TxtHi, Len(messages), bad, thrown)
         => /\ \A u \in SeqToSet(rooms[roomId]) \ {bad} :
                 Receives(Cur, u, NoExclude)
                   => \E k \in MessageFrames(sent') :
                        sent'[k].to = connections[u] /\ sent'[k].frame.id = NewRow.id
            /\ ws'[connections[bad]].readyState # "OPEN"
            /\ \A k \in 1 .. Len(sent') : ~(sent'[k].to = c /\ sent'[k].frame.type = "error")
            /\ ws'[c] = ws[c]]_vars

(***************************************************************************)
(*                    Claims checked under SpecTyping                      *)
(***************************************************************************)
IsTyping(tu, roomId, userId) == roomId \in DOMAIN tu /\ userId \in DOMAIN tu[roomId]
MarksOf(tu) == {p \in RoomIds \X UserIds : IsTyping(tu, p[1], p[2])}
PendingFor(ts, roomId, userId) ==
  {i \in 1 .. Len(ts) : ts[i].roomId = roomId /\ ts[i].userId = userId}
(* The mark of the pair has one pending timer, due at the given time. *)
OneTimer(tu, ts, roomId, userId, due) ==
  /\ IsTyping(tu, roomId, userId)
  /\ tu[roomId][userId].due = due
  /\ Cardinality(PendingFor(ts, roomId, userId)) = 1
  /\ \A i \in PendingFor(ts, roomId, userId) : ts[i].due = due
(* The frames sent are one user_typing_stop about the user to every other  *)
(* member of the room with an open socket, and nothing else.               *)
StopBroadcast(q, roomId, userId) ==
  /\ \A k \in 1 .. Len(q) :
       /\ q[k].frame.type = "user_typing_stop"
       /\ q[k].frame.roomId = roomId /\ q[k].frame.userId = userId
       /\ ws[q[k].to].userId # userId
  /\ \A v \in MembersOf(rooms, roomId) \ {userId} :
       Receives(Cur, v, NoExclude)
         => Cardinality({k \in 1 .. Len(q) : q[k].to = connections[v]}) = 1

(* C25: a typing_start leaves one mark for the pair and one pending timer, *)
(* due 3 seconds after it, and only a typing_start of the user changes the *)
(* timer of a mark; no mark outlives its timer's due time, so a mark is    *)
(* gone 3 seconds after the last typing_start at the latest; a step that   *)
(* removes a mark removes one, with one user_typing_stop to each other     *)
(* member of the room and none to the user.                                *)
C25_TypingExpiry ==
  [][/\ \A c \in Conns, roomId \in RoomIds :
          TypingStart(c, roomId)
            => OneTimer(typingUsers', timers', roomId, ws[c].userId, clock + TypingMs)
     /\ \A p \in MarksOf(typingUsers') :
          /\ OneTimer(typingUsers', timers', p[1], p[2], typingUsers'[p[1]][p[2]].due)
          /\ clock' <= typingUsers'[p[1]][p[2]].due
          /\ (p \in MarksOf(typingUsers) /\ typingUsers'[p[1]][p[2]] # typingUsers[p[1]][p[2]])
               => \E c \in Conns : ws[c].userId = p[2] /\ TypingStart(c, p[1])
     /\ \A i \in 1 .. Len(timers') :
          IsTyping(typingUsers', timers'[i].roomId, timers'[i].userId)
     /\ Cardinality(MarksOf(typingUsers) \ MarksOf(typingUsers')) <= 1
     /\ \A p \in MarksOf(typingUsers) \ MarksOf(typingUsers') :
          StopBroadcast(sent', p[1], p[2])]_vars

(* Past the due time of the first typing_start a mark was removed, no mark *)
(* and no timer is left, and the other user, who is in the room with an    *)
(* open socket, was told.                                                  *)
C25_Witness ==
  /\ clock = Epoch + TypingTickMs + TypingMs
  /\ MarksOf(typingUsers) = {} /\ timers = << >>
  /\ Len(sent) = 1
  /\ sent[1].frame.type = "user_typing_stop"
  /\ ws[sent[1].to].readyState = "OPEN"
  /\ ws[sent[1].to].userId # sent[1].frame.userId
  /\ sent[1].frame.userId \in DOMAIN connections

(* C26: no typing mark and no pending typing timer is of a user who has no *)
(* connection.                                                             *)
C26_NoOrphanTyping ==
  /\ \A p \in MarksOf(typingUsers) : p[2] \in DOMAIN connections
  /\ \A i \in 1 .. Len(timers) : timers[i].userId \in DOMAIN connections

(***************************************************************************)
(*                     Claims checked under SpecPage                       *)
(***************************************************************************)
(* The rows of the room whose id precedes the id before. *)
RowsBefore(roomId, before) ==
  {i \in RowsOfRoom(roomId) : IdLess(messages[i].id, before)}

(* C31: a join with a beforeId is answered with a history frame of rows of *)
(* the room whose id precedes beforeId: at most 100 of them, the newest    *)
(* ones, oldest first, each once.                                          *)
C31_PageBefore ==
  [][\A c \in Conns, i \in 1 .. Len(messages) :
       Join(c, "default", NoSince, messages[i].id)
         => /\ Len(sent') >= 1
            /\ sent'[1].to = c /\ sent'[1].frame.type = "history"
            /\ LET h == sent'[1].frame.messages
                   before == RowsBefore("default", messages[i].id)
               IN /\ Len(h) = Min(RecentLimit, Cardinality(before))
                  /\ \A k \in 1 .. Len(h) :
                       \E j \in before : h[k] = messages[j]
                  /\ \A k \in 1 .. Len(h) - 1 : IdLess(h[k].id, h[k + 1].id)]_vars

(***************************************************************************)
(*                    Claims checked under SpecCapTie                      *)
(***************************************************************************)
(* C32: when the cleanup job runs on 501 rows of room default, the row     *)
(* appended first is removed and the 500 others stay, also when rows were  *)
(* appended within one millisecond.                                        *)
C32_OldestGoes ==
  [][(/\ Sweep
      /\ Len(messages) = 501
      /\ \A i \in 1 .. Len(messages) : messages[i].roomId = "default")
       => messages' = Tail(messages)]_vars

(***************************************************************************)
(*                Claims checked under SpecFail (continued)                *)
(***************************************************************************)
(* C33: the frame of an accepted message goes to every other member of the *)
(* room with an open socket and not to the socket that sent the message.   *)
C33_NoEcho ==
  [][\A c \in Conns, roomId \in RoomIds :
       (ChatMessage(c, roomId, TxtHi, Len(messages), FALSE) /\ Accepted)
         => /\ \A k \in MessageFrames(sent') : sent'[k].to # c
            /\ \A u \in MembersOf(rooms, roomId) \ {ws[c].userId} :
                 Receives(Cur, u, NoExclude)
                   => \E k \in MessageFrames(sent') :
                        sent'[k].to = connections[u] /\ sent'[k].frame.id = NewRow.id]_vars

(***************************************************************************)
(*                      Claims checked under SpecJob                       *)
(***************************************************************************)
(* C34: a tick of the cleanup job that throws leaves no exception          *)
(* uncaught, changes nothing of the connections, sends nothing to a socket *)
(* and leaves the job's timer active, so later ticks run; and whatever the *)
(* calls of startCleanupJob, at most one timer of the job is active.       *)
C34_SweeperContained ==
  [][/\ Cardinality(intervals') <= 1
     /\ uncaught' = FALSE
     /\ \A stage \in SweepStages :
          SweepFails(stage)
            => /\ intervals' = intervals /\ intervals' # {}
               /\ ws' = ws /\ users' = users /\ connections' = connections
               /\ rooms' = rooms /\ rateLimiters' = rateLimiters
               /\ \A k \in 1 .. Len(sent') : sent'[k].to \notin Conns]_vars

(* A tick has thrown, after time has passed, while a user is connected and *)
(* rows are stored; the error was logged and the job's one timer is        *)
(* active.                                                                 *)
C34_Witness ==
  /\ sent = LogFrame("Cleanup job error")
  /\ Cardinality(intervals) = 1 /\ cleanupInterval \in intervals
  /\ ~uncaught
  /\ DOMAIN connections # {}
  /\ Len(messages) >= 1
  /\ clock > Epoch

(***************************************************************************)
(*                  Claims checked under Spec (continued)                  *)
(***************************************************************************)
(* C36: every member of a room has a user record and a registered          *)
(* connection, and the user of every open socket has a user record.        *)
C36_RegistryConsistent ==
  /\ \A r \in DOMAIN rooms : \A u \in SeqToSet(rooms[r]) :
       u \in DOMAIN users /\ u \in DOMAIN connections
  /\ \A c \in Conns : ws[c].readyState = "OPEN" => ws[c].userId \in DOMAIN users

(***************************************************************************)
(*                     Claims checked under SpecRooms                      *)
(***************************************************************************)
(* C35: every room record has a member; a record appears only with the     *)
(* upgrade or join that puts its first member in it; after the close or    *)
(* error event of a socket its user is in no room, and a room that lost    *)
(* its last member has no record; message, set_name, typing_start and      *)
(* typing_stop frames leave every member set as it was.                    *)
C35_RoomsHaveMembers ==
  [][/\ \A r \in DOMAIN rooms' : rooms'[r] # << >>
     /\ \A r \in DOMAIN rooms' \ DOMAIN rooms :
          \/ \E c \in Conns : Join(c, r, NoSince, NoBefore) /\ rooms'[r] = << ws[c].userId >>
          \/ r = "default" /\ \E u \in UserIds :
               Upgrade(TRUE, SessionToken(u), GoodOrigin) /\ rooms'[r] = << u >>
     /\ \A c \in Conns :
          (WsError(c) \/ WsClose(c))
            => /\ \A r \in DOMAIN rooms' : ws[c].userId \notin SeqToSet(rooms'[r])
               /\ \A r \in DOMAIN rooms : 
                    SeqToSet(rooms[r]) \subseteq {ws[c].userId} => r \notin DOMAIN rooms'
     /\ \A c \in Conns, roomId \in RoomIds :
          (\/ ChatMessage(c, roomId, TxtHi, Len(messages), FALSE)
           \/ SetName(c, Zed)
           \/ TypingStart(c, roomId)
           \/ TypingStop(c, roomId))
            => rooms' = rooms]_vars

(* The last member of both rooms has closed after a message was stored: no *)
(* room record is left.                                                    *)
C35_Witness ==
  /\ rooms = EmptyMap
  /\ \E c \in Conns : ws[c] = ClosedSocket
  /\ \A c \in Conns : ws[c].readyState # "OPEN"
  /\ Len(messages) = 1 /\ messages[1].roomId = "lobby"

(***************************************************************************)
(*                    Claims checked under SpecClient                      *)
(***************************************************************************)
(* C38: after the close of a socket while shouldReconnect is true, the     *)
(* client has a socket, or a pending retry timer, or has reported          *)
(* CONNECTION_FAILED; a timer armed by the close has the delay 1000 * 2^n  *)
(* for n attempts made, and CONNECTION_FAILED is reported only after 5     *)
(* attempts.                                                               *)
C38_KeepsRetrying ==
  [][\A s \in 1 .. MaxClientSocks :
       (ClientOnClose(s) /\ client.shouldReconnect)
         => /\ \/ Live(client') # {}
               \/ client'.retries # << >>
               \/ client'.connectionFailed
            /\ Len(client'.retries) > Len(client.retries)
                 => client'.retries[Len(client'.retries)]
                      = 1000 * 2 ^ client.reconnectAttempts
            /\ (client'.connectionFailed /\ ~client.connectionFailed)
                 => client.reconnectAttempts >= 5]_vars

(* C39: while shouldReconnect is false, that is from a disconnect() to the *)
(* next connect(), no step makes a new socket.                             *)
C39_NoConnectionAfterDisconnect ==
  [][(~client.shouldReconnect /\ ~client'.shouldReconnect)
       => Live(client') \subseteq Live(client)]_vars

(***************************************************************************)
(*                     Claims checked under SpecSync                       *)
(***************************************************************************)
(* C37: the history frame that answers the join of a reconnected client,   *)
(* sent with sinceTs = lastSyncTs, holds every stored message of the room  *)
(* the client has not been handed yet and none it has been handed, also    *)
(* when messages share the ts of the last one it saw.                      *)
C37_ReconnectSync ==
  [][(/\ Deliver
      /\ client.outbox # << >>
      /\ client.outbox[1].sinceTs # NoSince
      /\ \E k \in 1 .. Len(Pending) : Pending[k].frame.type = "history")
       => \A k \in 1 .. Len(Pending) :
            Pending[k].frame.type = "history"
              => LET h == Pending[k].frame.messages
                     got == {h[j].id : j \in 1 .. Len(h)}
                     had == SeqToSet(client.delivered)
                     stored == {messages[j].id : j \in RowsOfRoom(client.currentRoomId)}
                 IN /\ got \cap had = {}
                    /\ stored \ had \subseteq got]_vars

====
